---- MODULE Spec2Model ----
(***************************************************************************)
(* eb2ez.py: converts an Eventbrite attendee report (CSV) into the EZ      *)
(* Badge upload format.                                                    *)
(*                                                                         *)
(* Representation.  A Python str is a sequence of one-character strings,   *)
(* so that quoting, escaping, suffix tests and path splitting are computed *)
(* character by character.  Column names, which the program only uses as   *)
(* dictionary keys, are TLA+ strings; Chars gives the characters of the 15 *)
(* output column names, which the writer formats like any other value.     *)
(* Python's None is the one-token sequence None.  A dict is a function     *)
(* whose DOMAIN is its key set.  A CSV file is kept tokenised: its header  *)
(* row and its data rows are sequences of fields, as csv.reader yields     *)
(* them.  An output file is the sequence of the strings passed to write(). *)
(***************************************************************************)
EXTENDS Integers, Sequences, FiniteSets, TLC

(***************************************************************************)
(* Bounds of the model.                                                    *)
(***************************************************************************)
\* longest list of data rows of an input file
MaxRows == 2
\* longest string given to format_csv_value in SpecFormat
MaxLen == 3
\* longest list of rows given to preprocess_data in SpecPre
MaxPreRows == 2

(***************************************************************************)
(* Strings.                                                                *)
(***************************************************************************)
None == <<"<None>">>
Space == <<" ">>
Empty == <<>>
Yes == <<"Y","e","s">>
No == <<"N","o">>
DQ == "\""
Comma == ","
LF == "\n"
CR == "\r"

RECURSIVE Join(_, _)
\* sep.join(parts)
Join(parts, sep) ==
    IF parts = <<>> THEN <<>>
    ELSE IF Len(parts) = 1 THEN parts[1]
    ELSE parts[1] \o sep \o Join(Tail(parts), sep)

Contains(value, ch) == \E i \in 1..Len(value) : value[i] = ch

\* str.lower() on the letters the model's paths use
LowerChar(ch) ==
    CASE ch = "C" -> "c"
      [] ch = "S" -> "s"
      [] ch = "V" -> "v"
      [] ch = "A" -> "a"
      [] ch = "D" -> "d"
      [] OTHER -> ch

Lower(s) == [i \in 1..Len(s) |-> LowerChar(s[i])]

EndsWith(s, suffix) ==
    /\ Len(s) >= Len(suffix)
    /\ SubSeq(s, Len(s) - Len(suffix) + 1, Len(s)) = suffix

\* index of the last occurrence of ch in s, 0 when there is none (str.rfind + 1)
RFind(s, ch) ==
    LET hits == {i \in 1..Len(s) : s[i] = ch}
    IN  IF hits = {} THEN 0 ELSE CHOOSE i \in hits : \A j \in hits : j <= i

(***************************************************************************)
(* pathlib.Path(...).name / .suffix / .stem, for paths without a trailing  *)
(* slash and without "." or ".." as last component.                        *)
(***************************************************************************)
PathName(p) == SubSeq(p, RFind(p, "/") + 1, Len(p))

PathSuffix(p) ==
    LET name == PathName(p)
        i == RFind(name, ".")
    IN  IF 1 < i /\ i < Len(name) THEN SubSeq(name, i, Len(name)) ELSE <<>>

PathStem(p) ==
    LET name == PathName(p)
        i == RFind(name, ".")
    IN  IF 1 < i /\ i < Len(name) THEN SubSeq(name, 1, i - 1) ELSE name

(***************************************************************************)
(* The program's fixed tables.                                             *)
(***************************************************************************)
expected_headers ==
    << "Order #", "Order Date", "First Name", "Last Name", "Email", "Quantity",
       "Price Tier", "Ticket Type", "Attendee #", "Group", "Order Type", "Currency",
       "Total Paid", "Fees Paid", "Eventbrite Fees", "Eventbrite Payment Processing",
       "Attendee Status", "Home Address 1", "Home Address 2", "Home City", "Home State",
       "Home Zip", "Home Country", "How did you hear about this event?",
       "Are you a consultant?", "Are you an IEEE member?", "Are you an IEEE-CNSV Member?",
       "Where are you located (city+state or city+country)",
       "Please tell us where you heard about this event",
       "Of which IEEE Societies and/or Affinity Groups are you a member?",
       "Job Title", "Company" >>

output_columns ==
    << "FirstName", "LastName", "Email", "Company or Organization", "IEEE?", "CNSV?",
       "Are you a consultant?", "Are you on CNSV BOD?", "CB 6:1 - CNSV Email",
       "CB 6:2 - CNSV Website", "CB 6:3 - IEEE GRID", "CB 6:4 - Eventbrite Browsing",
       "CB 6:5 - Meetup", "CB 6:6 - Friend", "CB 6:7 - Other" >>

\* the characters of an output column name
Chars(c) ==
    CASE c = "FirstName" -> <<"F","i","r","s","t","N","a","m","e">>
      [] c = "LastName" -> <<"L","a","s","t","N","a","m","e">>
      [] c = "Email" -> <<"E","m","a","i","l">>
      [] c = "Company or Organization" -> <<"C","o","m","p","a","n","y"," ","o","r"," ","O","r","g","a","n","i","z","a","t","i","o","n">>
      [] c = "IEEE?" -> <<"I","E","E","E","?">>
      [] c = "CNSV?" -> <<"C","N","S","V","?">>
      [] c = "Are you a consultant?" -> <<"A","r","e"," ","y","o","u"," ","a"," ","c","o","n","s","u","l","t","a","n","t","?">>
      [] c = "Are you on CNSV BOD?" -> <<"A","r","e"," ","y","o","u"," ","o","n"," ","C","N","S","V"," ","B","O","D","?">>
      [] c = "CB 6:1 - CNSV Email" -> <<"C","B"," ","6",":","1"," ","-"," ","C","N","S","V"," ","E","m","a","i","l">>
      [] c = "CB 6:2 - CNSV Website" -> <<"C","B"," ","6",":","2"," ","-"," ","C","N","S","V"," ","W","e","b","s","i","t","e">>
      [] c = "CB 6:3 - IEEE GRID" -> <<"C","B"," ","6",":","3"," ","-"," ","I","E","E","E"," ","G","R","I","D">>
      [] c = "CB 6:4 - Eventbrite Browsing" -> <<"C","B"," ","6",":","4"," ","-"," ","E","v","e","n","t","b","r","i","t","e"," ","B","r","o","w","s","i","n","g">>
      [] c = "CB 6:5 - Meetup" -> <<"C","B"," ","6",":","5"," ","-"," ","M","e","e","t","u","p">>
      [] c = "CB 6:6 - Friend" -> <<"C","B"," ","6",":","6"," ","-"," ","F","r","i","e","n","d">>
      [] c = "CB 6:7 - Other" -> <<"C","B"," ","6",":","7"," ","-"," ","O","t","h","e","r">>

EZ_BADGE_UPLOAD == <<"_","E","Z","_","B","A","D","G","E","_","U","P","L","O","A","D">>

DotCsv == <<".","c","s","v">>

HelpToken == <<"-","-","h","e","l","p">>

(***************************************************************************)
(* Transformer.                                                            *)
(***************************************************************************)
column_mapping(header) ==
    CASE header = "First Name" -> "FirstName"
      [] header = "Last Name" -> "LastName"
      [] header = "Company" -> "Company or Organization"
      [] header = "Are you an IEEE member?" -> "IEEE?"
      [] header = "Are you an IEEE-CNSV Member?" -> "CNSV?"
      [] OTHER -> header

rename_columns(headers) == [i \in 1..Len(headers) |-> column_mapping(headers[i])]

\* the three if-blocks of preprocess_data: "Yes" -> yesText, "No" -> " "
YesText(col) ==
    CASE col = "Are you a consultant?" -> <<"C","o","n","s","u","l","t","a","n","t">>
      [] col = "Are you an IEEE member?" -> <<"I","E","E","E">>
      [] col = "Are you an IEEE-CNSV Member?" -> <<"C","N","S","V">>

BoolColumns ==
    {"Are you a consultant?", "Are you an IEEE member?", "Are you an IEEE-CNSV Member?"}

\* preprocess_value treating an empty answer like "No"
preprocess_value_emptyIsNo(col, value) ==
    IF value = Yes THEN YesText(col)
    ELSE IF value = No \/ value = Empty THEN Space
    ELSE value

preprocess_value(col, value) ==
    IF value = Yes THEN YesText(col)
    ELSE IF value = No THEN Space
    ELSE value

\* one iteration of preprocess_data's loop: new_row = row.copy(), then the
\* three columns are rewritten in the copy when the row has them
preprocess_row(row) ==
    [k \in DOMAIN row |->
        IF k \in BoolColumns THEN preprocess_value(k, row[k]) ELSE row[k]]

\* the returned list, and the argument as the call leaves it
preprocess_data(data) ==
    [ processed_data |-> [i \in 1..Len(data) |-> preprocess_row(data[i])],
      data |-> data ]

(***************************************************************************)
(* Formatter.                                                              *)
(***************************************************************************)
\* needs_quoting without the test for "\r"
needs_quoting_noCR(value) ==
    \/ value = Space
    \/ Contains(value, Comma)
    \/ Contains(value, LF)
    \/ Contains(value, DQ)

needs_quoting(value) ==
    \/ value = Space
    \/ Contains(value, Comma)
    \/ Contains(value, LF) \/ Contains(value, CR)
    \/ Contains(value, DQ)

RECURSIVE EscapeQuotes(_)
\* value.replace('"', '""')
EscapeQuotes(value) ==
    IF value = <<>> THEN <<>>
    ELSE (IF Head(value) = DQ THEN <<DQ, DQ>> ELSE <<Head(value)>>)
         \o EscapeQuotes(Tail(value))

format_csv_value(value) ==
    IF needs_quoting(value)
    THEN <<DQ>> \o EscapeQuotes(value) \o <<DQ>>
    ELSE value

\* BuildLine without the trailing comma
BuildLine_noTrailingComma(values) ==
    Join([i \in 1..Len(values) |-> format_csv_value(values[i])], <<Comma>>) \o <<LF>>

\* ','.join(format_csv_value(v) for v in values) + ',\n'
BuildLine(values) ==
    Join([i \in 1..Len(values) |-> format_csv_value(values[i])], <<Comma>>)
    \o <<Comma, LF>>

header_line == BuildLine([i \in 1..Len(output_columns) |-> Chars(output_columns[i])])

\* the inner loop of generate_output_file over output_columns
output_row(row) ==
    [i \in 1..Len(output_columns) |->
        LET column == output_columns[i]
        IN  IF column \in DOMAIN row
            THEN (IF row[column] = Empty \/ row[column] = None
                  THEN Space ELSE row[column])
            ELSE Space]

row_line(row) == BuildLine(output_row(row))

\* input_path.stem + "_EZ_BADGE_UPLOAD" + input_path.suffix
output_file_name(input_file) ==
    PathStem(input_file) \o EZ_BADGE_UPLOAD \o PathSuffix(input_file)

(***************************************************************************)
(* csv.reader / csv.DictReader over a tokenised file.                      *)
(***************************************************************************)
Range(s) == {s[i] : i \in 1..Len(s)}

RECURSIVE SelectSeq2(_)
\* DictReader.__next__ skips rows that are []
SelectSeq2(rows) ==
    IF rows = <<>> THEN <<>>
    ELSE (IF Head(rows) = <<>> THEN <<>> ELSE <<Head(rows)>>) \o SelectSeq2(Tail(rows))

RestKey == "<restkey None>"

\* d = dict(zip(fieldnames, row)); longer rows put the rest under restkey (None),
\* shorter rows get restval (None) for the remaining field names
DictRow(fieldnames, row) ==
    LET lf == Len(fieldnames)
        lr == Len(row)
        last(k) == CHOOSE i \in 1..lf :
                      /\ fieldnames[i] = k
                      /\ \A j \in 1..lf : fieldnames[j] = k => j <= i
        named == [k \in Range(fieldnames) |->
                     IF last(k) <= lr THEN row[last(k)] ELSE None]
    IN  IF lf < lr THEN (RestKey :> SubSeq(row, lf + 1, lr)) @@ named ELSE named

\* list(csv.DictReader(csvfile)): fieldnames from the first row, one dict per
\* following non-empty row
DictReader(records) ==
    LET fieldnames == records[1]
        rows == SelectSeq2(Tail(records))
    IN  [i \in 1..Len(rows) |-> DictRow(fieldnames, rows[i])]

(***************************************************************************)
(* Validator.                                                              *)
(***************************************************************************)
\* os.path.exists, then file_path.lower().endswith('.csv')
validate_csv_file(files, file_path) ==
    IF file_path \notin DOMAIN files THEN "err_not_exist"
    ELSE IF ~EndsWith(Lower(file_path), DotCsv) THEN "err_not_csv"
    ELSE "ok"

\* the header test accepting a first row that holds some expected header
HasExpectedHeaders_any(headers) ==
    \E i \in 1..Len(expected_headers) : expected_headers[i] \in Range(headers)

HasExpectedHeaders(headers) ==
    \A i \in 1..Len(expected_headers) : expected_headers[i] \in Range(headers)

\* open + next(reader) raise on an unreadable or empty file ("err_reading")
validate_eventbrite_headers(content) ==
    IF content.kind # "csv" THEN "err_reading"
    ELSE IF content.records = <<>> THEN "err_reading"
    ELSE IF ~HasExpectedHeaders(content.records[1]) THEN "err_not_eventbrite"
    ELSE "ok"

(***************************************************************************)
(* process_csv_file up to the call of generate_output_file.                *)
(***************************************************************************)
\* new_row[new_header] = row[old_header] over zip(headers, renamed_headers):
\* a later column with the same new name overwrites an earlier one
update_row(headers, renamed_headers, row) ==
    LET n == Len(headers)
        last(k) == CHOOSE i \in 1..n :
                      /\ renamed_headers[i] = k
                      /\ \A j \in 1..n : renamed_headers[j] = k => j <= i
    IN  [k \in Range(renamed_headers) |-> row[headers[last(k)]]]

updated_data_of(records) ==
    LET headers == records[1]
        data == DictReader(records)
        processed_data == preprocess_data(data).processed_data
        renamed_headers == rename_columns(headers)
    IN  [i \in 1..Len(processed_data) |->
            update_row(headers, renamed_headers, processed_data[i])]

(***************************************************************************)
(* Orchestrator.                                                           *)
(***************************************************************************)
\* usage_only without the final test of the argument count
usage_only_noCount(args) ==
    \/ Len(args) = 1
    \/ Len(args) = 2 /\ args[2] = HelpToken

\* main's three argument tests that end in print_help()
usage_only(args) ==
    \/ Len(args) = 1
    \/ Len(args) = 2 /\ args[2] = HelpToken
    \/ Len(args) # 2

\* main_report printing nothing when process_csv_file returns False
main_report_silentFailure(ok) ==
    IF ok THEN <<"Processing completed successfully!">> ELSE <<>>

\* what main prints after process_csv_file returns
main_report(ok) ==
    IF ok THEN <<"Processing completed successfully!">> ELSE <<"Processing failed!">>

VARIABLES
    argv,          \* sys.argv
    fs,            \* the files that exist: path -> content
    fs0,           \* fs when the run started
    pc,            \* where the run is
    visited,       \* the orchestrator states the run has been in
    stdout,        \* the lines printed so far
    fslog,         \* the file-system calls made so far
    input_file,    \* main's input_file
    updated_data,  \* process_csv_file's updated_data
    output_file,   \* generate_output_file's output_file
    next_row,      \* index of the next row generate_output_file writes
    arg_value,     \* SpecFormat: the argument of format_csv_value
    formatted,     \* SpecFormat: <<its result>>, NotCalled before the call
    arg_data,      \* SpecPre: the argument of preprocess_data, as the call leaves it
    arg_data0,     \* SpecPre: the argument as it was given
    processed      \* SpecPre: <<the result>>, NotCalled before the call

vars == << argv, fs, fs0, pc, visited, stdout, fslog, input_file, updated_data,
           output_file, next_row, arg_value, formatted, arg_data, arg_data0, processed >>

mainVars == << argv, fs, fs0, pc, visited, stdout, fslog, input_file, updated_data,
               output_file, next_row >>

pureVars == << arg_value, formatted, arg_data, arg_data0, processed >>

\* the orchestrator state a position belongs to
State(p) ==
    CASE p \in {"Validating", "ValidatingHeaders"} -> "Validating"
      [] p \in {"Processing", "Opening", "WritingHeader", "WritingRows"} -> "Processing"
      [] OTHER -> p

\* a result not yet computed; a computed result r is kept as <<r>>
NotCalled == <<>>

(***************************************************************************)
(* The inputs of a run: command lines and files.                           *)
(***************************************************************************)
Prog == <<"e","b","2","e","z",".","p","y">>
P_a == <<"a",".","c","s","v">>
P_da == <<"d","/","a",".","c","s","v">>
P_aCSV == <<"a",".","C","S","V">>
P_dACsv == <<"d","/","A",".","C","s","v">>
P_txt == <<"a",".","t","x","t">>
P_plain == <<"d","/","a">>

Paths == {P_a, P_da, P_aCSV, P_dACsv, P_txt, P_plain}

ArgLists ==
    {<<Prog>>, <<Prog, HelpToken>>, <<Prog, P_a, P_da>>, <<Prog, HelpToken, P_a>>,
     <<Prog, P_a, HelpToken>>}
    \cup {<<Prog, p>> : p \in Paths}

\* files already lying where an output file may be written
StalePaths ==
    { <<"a","_","E","Z","_","B","A","D","G","E","_","U","P","L","O","A","D",".","c","s","v">>,
      <<"d","/","a","_","E","Z","_","B","A","D","G","E","_","U","P","L","O","A","D",".","c","s","v">> }

StaleFile == [kind |-> "out", lines |-> << <<"o","l","d",LF>> >>]

Headers ==
    { expected_headers,
      [i \in 1..Len(expected_headers) |-> expected_headers[Len(expected_headers) + 1 - i]],
      SubSeq(expected_headers, 1, 4) \o SubSeq(expected_headers, 6, Len(expected_headers)),
      expected_headers \o <<"Notes">>,
      expected_headers \o <<"Are you on CNSV BOD?">>,
      expected_headers \o <<"CB 6:7 - Other", "Notes">>,
      expected_headers \o <<"FirstName">>,
      <<"IEEE?">> \o expected_headers,
      expected_headers \o <<"Email">> }

Maybe == <<"M","a","y","b","e">>

\* the answer next to b in the cycle Yes, No, "", Maybe
Rot(b) ==
    IF b = Yes THEN No ELSE IF b = No THEN Empty ELSE IF b = Empty THEN Maybe ELSE Yes

\* the field of a data row under column c
Cell(c, kind) ==
    CASE c = "First Name" -> kind.v
      [] c = "Last Name" -> <<"L">>
      [] c = "Email" -> <<"e","@","x">>
      [] c = "Company" -> kind.co
      [] c = "Are you a consultant?" -> kind.b
      [] c = "Are you an IEEE member?" -> Rot(kind.b)
      [] c = "Are you an IEEE-CNSV Member?" -> Rot(Rot(kind.b))
      [] c = "Job Title" -> <<"J">>
      [] c \in Range(expected_headers) -> <<"x">>
      [] OTHER -> <<"Z">>

RowKinds ==
    { [v |-> <<"A","l">>, co |-> <<"C","o">>, b |-> Yes, shape |-> "full"],
      [v |-> <<"a",Comma,"b">>, co |-> Empty, b |-> No, shape |-> "full"],
      [v |-> <<"q",DQ>>, co |-> Space, b |-> Empty, shape |-> "full"],
      [v |-> Empty, co |-> <<"C",LF,"D">>, b |-> Maybe, shape |-> "full"],
      [v |-> <<"S","h">>, co |-> <<"C","o">>, b |-> Yes, shape |-> "short"],
      [v |-> <<"L","g">>, co |-> <<"C","o">>, b |-> Yes, shape |-> "long"],
      [v |-> Empty, co |-> Empty, b |-> Empty, shape |-> "blank"] }

\* the fields of a data row of kind `kind` in a file whose header row is h
Fields(h, kind) ==
    LET all == [i \in 1..Len(h) |-> Cell(h[i], kind)]
    IN  CASE kind.shape = "full" -> all
          [] kind.shape = "short" -> SubSeq(all, 1, 4)
          [] kind.shape = "long" -> all \o << <<"+">> >>
          [] kind.shape = "blank" -> <<>>

KindLists == UNION {[1..n -> RowKinds] : n \in 0..MaxRows}

CsvFile(h, kinds, bad) ==
    [ kind |-> "csv",
      records |-> <<h>> \o [i \in 1..Len(kinds) |-> Fields(h, kinds[i])],
      body_error |-> bad ]

\* a file open() or the decoder rejects; a file with no row at all
Unreadable == [kind |-> "unreadable"]
EmptyFile == [kind |-> "csv", records |-> <<>>, body_error |-> FALSE]
Absent == [kind |-> "absent"]

BasicContents ==
    { Absent, Unreadable, EmptyFile,
      CsvFile(expected_headers, << CHOOSE k \in RowKinds : k.v = <<"A","l">> >>, FALSE),
      CsvFile(SubSeq(expected_headers, 1, 4) \o SubSeq(expected_headers, 6, 32),
              <<>>, FALSE) }

FullContents ==
    { CsvFile(h, kinds, bad) : h \in Headers, kinds \in KindLists, bad \in BOOLEAN }

\* every command line with the basic files, one command line with every file
Scenarios ==
    { <<args, c>> : args \in ArgLists, c \in BasicContents }
    \cup { << <<Prog, P_da>>, c >> : c \in FullContents }

InitialFiles(args, content, stale) ==
    LET p == IF Len(args) >= 2 /\ args[2] # HelpToken THEN args[2] ELSE P_a
        own == IF content.kind = "absent" THEN <<>> ELSE (p :> content)
        old == IF stale THEN [q \in StalePaths |-> StaleFile] ELSE <<>>
    IN  own @@ old

PureIdle ==
    /\ arg_value = <<>>
    /\ formatted = NotCalled
    /\ arg_data = <<>>
    /\ arg_data0 = <<>>
    /\ processed = NotCalled

Init ==
    /\ \E sc \in Scenarios, stale \in BOOLEAN :
          /\ argv = sc[1]
          /\ fs = InitialFiles(sc[1], sc[2], stale)
    /\ fs0 = fs
    /\ pc = "Idle"
    /\ visited = {"Idle"}
    /\ stdout = <<>>
    /\ fslog = <<>>
    /\ input_file = <<>>
    /\ updated_data = <<>>
    /\ output_file = <<>>
    /\ next_row = 0
    /\ PureIdle

(***************************************************************************)
(* The run, one action per step of main.                                   *)
(***************************************************************************)
Goto(p) ==
    /\ pc' = p
    /\ visited' = visited \cup {State(p)}

Call(op, path) == fslog' = Append(fslog, [op |-> op, path |-> path])

\* main, lines 242-257: usage, or take the one argument as input_file
Main ==
    /\ pc = "Idle"
    /\ IF usage_only(argv)
       THEN /\ stdout' = Append(stdout, "Usage: python eventbrite_processor.py <input_file.csv>")
            /\ Goto("Usage")
            /\ UNCHANGED input_file
       ELSE /\ input_file' = argv[2]
            /\ Goto("Validating")
            /\ UNCHANGED stdout
    /\ UNCHANGED << argv, fs, fs0, fslog, updated_data, output_file, next_row >>
    /\ UNCHANGED pureVars

\* main, lines 260-261
ValidateCsvFile ==
    /\ pc = "Validating"
    /\ Call("exists", input_file)
    /\ LET r == validate_csv_file(fs, input_file)
       IN  IF r = "ok"
           THEN Goto("ValidatingHeaders") /\ UNCHANGED stdout
           ELSE Goto("Failed") /\ stdout' = Append(stdout, r)
    /\ UNCHANGED << argv, fs, fs0, input_file, updated_data, output_file, next_row >>
    /\ UNCHANGED pureVars

\* main, lines 264-265
ValidateEventbriteHeaders ==
    /\ pc = "ValidatingHeaders"
    /\ Call("open_r", input_file)
    /\ LET r == validate_eventbrite_headers(fs[input_file])
       IN  IF r = "ok"
           THEN Goto("Processing") /\ UNCHANGED stdout
           ELSE Goto("Failed") /\ stdout' = Append(stdout, r)
    /\ UNCHANGED << argv, fs, fs0, input_file, updated_data, output_file, next_row >>
    /\ UNCHANGED pureVars

\* process_csv_file, lines 208-227 and 232-234: read, preprocess, rename; an
\* error while reading the rows is caught and reported, and main reports failure
ProcessCsvFile ==
    /\ pc = "Processing"
    /\ Call("open_r", input_file)
    /\ IF fs[input_file].body_error
       THEN /\ stdout' = stdout \o <<"err_processing">> \o main_report(FALSE)
            /\ Goto("Failed")
            /\ UNCHANGED << updated_data, output_file >>
       ELSE /\ updated_data' = updated_data_of(fs[input_file].records)
            /\ output_file' = output_file_name(input_file)
            /\ Goto("Opening")
            /\ UNCHANGED stdout
    /\ UNCHANGED << argv, fs, fs0, input_file, next_row >>
    /\ UNCHANGED pureVars

\* generate_output_file, line 173: open(output_file, 'w') creates or truncates
OpenOutput ==
    /\ pc = "Opening"
    /\ Call("open_w", output_file)
    /\ fs' = (output_file :> [kind |-> "out", lines |-> <<>>]) @@ fs
    /\ Goto("WritingHeader")
    /\ UNCHANGED << argv, fs0, stdout, input_file, updated_data, output_file, next_row >>
    /\ UNCHANGED pureVars

WriteLine(line) ==
    /\ Call("write", output_file)
    /\ fs' = [fs EXCEPT ![output_file].lines = Append(@, line)]

\* generate_output_file, lines 175-176
WriteHeader ==
    /\ pc = "WritingHeader"
    /\ WriteLine(header_line)
    /\ next_row' = 1
    /\ Goto("WritingRows")
    /\ UNCHANGED << argv, fs0, stdout, input_file, updated_data, output_file >>
    /\ UNCHANGED pureVars

\* generate_output_file, lines 179-194: one iteration of the loop over data
WriteRow ==
    /\ pc = "WritingRows"
    /\ next_row <= Len(updated_data)
    /\ WriteLine(row_line(updated_data[next_row]))
    /\ next_row' = next_row + 1
    /\ UNCHANGED << pc, visited >>
    /\ UNCHANGED << argv, fs0, stdout, input_file, updated_data, output_file >>
    /\ UNCHANGED pureVars

\* generate_output_file, lines 196-197, and main, lines 268-269
FinishOutput ==
    /\ pc = "WritingRows"
    /\ next_row > Len(updated_data)
    /\ stdout' = stdout \o <<"Output file generated">> \o main_report(TRUE)
    /\ Goto("Done")
    /\ UNCHANGED << argv, fs, fs0, fslog, input_file, updated_data, output_file, next_row >>
    /\ UNCHANGED pureVars

\* generate_output_file, lines 199-201, and main, lines 270-271: open() or a
\* write() raises (no permission, disk full); what is in the file stays there
WriteError ==
    /\ pc \in {"Opening", "WritingHeader", "WritingRows"}
    /\ stdout' = stdout \o <<"err_generating">> \o main_report(FALSE)
    /\ Goto("Failed")
    /\ UNCHANGED << argv, fs, fs0, fslog, input_file, updated_data, output_file, next_row >>
    /\ UNCHANGED pureVars

Next ==
    \/ Main
    \/ ValidateCsvFile
    \/ ValidateEventbriteHeaders
    \/ ProcessCsvFile
    \/ OpenOutput
    \/ WriteHeader
    \/ WriteRow
    \/ FinishOutput
    \/ WriteError

Spec == Init /\ [][Next]_vars

(***************************************************************************)
(* format_csv_value alone, on every string of at most MaxLen characters.   *)
(***************************************************************************)
Alphabet == {"a", " ", Comma, DQ, CR, LF}

Strings == UNION {[1..n -> Alphabet] : n \in 0..MaxLen}

MainIdle ==
    /\ argv = <<Prog>>
    /\ fs = <<>>
    /\ fs0 = <<>>
    /\ pc = "Idle"
    /\ visited = {"Idle"}
    /\ stdout = <<>>
    /\ fslog = <<>>
    /\ input_file = <<>>
    /\ updated_data = <<>>
    /\ output_file = <<>>
    /\ next_row = 0

InitFormat ==
    /\ MainIdle
    /\ arg_value \in Strings
    /\ formatted = NotCalled
    /\ arg_data = <<>>
    /\ arg_data0 = <<>>
    /\ processed = NotCalled

FormatCsvValue ==
    /\ formatted = NotCalled
    /\ formatted' = <<format_csv_value(arg_value)>>
    /\ UNCHANGED << arg_value, arg_data, arg_data0, processed >>
    /\ UNCHANGED mainVars

NextFormat == FormatCsvValue

SpecFormat == InitFormat /\ [][NextFormat]_vars

(***************************************************************************)
(* preprocess_data alone.  A row gives each of the three answer columns    *)
(* one of PreOptions; the rows of a list are the cyclic shifts of its      *)
(* first row.  "Email" holds "Yes" in every row.                           *)
(***************************************************************************)
PreOptions == {<<"<absent>">>, Yes, No, Empty, Maybe, None}

PreColumns ==
    <<"Are you a consultant?", "Are you an IEEE member?", "Are you an IEEE-CNSV Member?">>

PreRow(t) ==
    [k \in {"Email"} \cup {PreColumns[i] : i \in {j \in 1..3 : t[j] # <<"<absent>">>}} |->
        IF k = "Email" THEN Yes
        ELSE t[CHOOSE i \in 1..3 : PreColumns[i] = k]]

Shift(t, n) == [i \in 1..3 |-> t[((i - 1 + n) % 3) + 1]]

PreList(t, n) == [i \in 1..n |-> PreRow(Shift(t, i - 1))]

InitPre ==
    /\ MainIdle
    /\ \E t \in [1..3 -> PreOptions], n \in 0..MaxPreRows : arg_data0 = PreList(t, n)
    /\ arg_data = arg_data0
    /\ processed = NotCalled
    /\ arg_value = <<>>
    /\ formatted = NotCalled

PreprocessData ==
    /\ processed = NotCalled
    /\ LET r == preprocess_data(arg_data)
       IN  /\ processed' = <<r.processed_data>>
           /\ arg_data' = r.data
    /\ UNCHANGED << arg_data0, arg_value, formatted >>
    /\ UNCHANGED mainVars

NextPre == PreprocessData

SpecPre == InitPre /\ [][NextPre]_vars

(***************************************************************************)
(* Claims about the pure functions.                                        *)
(***************************************************************************)
\* number of double quotes among the first k characters of s
QuotesBefore(s, k) == Cardinality({i \in 1..k : s[i] = DQ})

\* q is s with every double quote doubled, inside one pair of double quotes
IsQuotedForm(q, s) ==
    /\ Len(q) = Len(s) + 2 + QuotesBefore(s, Len(s))
    /\ q[1] = DQ
    /\ q[Len(q)] = DQ
    /\ \A i \in 1..Len(s) :
          /\ q[1 + i + QuotesBefore(s, i - 1)] = s[i]
          /\ s[i] = DQ => q[2 + i + QuotesBefore(s, i - 1)] = DQ

\* C9: format_csv_value returns the value with every double quote doubled and
\* wrapped in one pair of double quotes when the value is a single space or
\* holds a comma, a double quote, a carriage return or a line feed; every other
\* value (the empty string, two or more spaces) is returned unchanged.
C9_FormatCsvValue ==
    formatted # NotCalled =>
        IF \/ arg_value = <<" ">>
           \/ \E i \in 1..Len(arg_value) : arg_value[i] \in {",", "\"", "\r", "\n"}
        THEN IsQuotedForm(formatted[1], arg_value)
        ELSE formatted[1] = arg_value

C9_Witness ==
    /\ arg_value = <<"\"", "\r", "\"">>
    /\ formatted = << <<"\"", "\"", "\"", "\r", "\"", "\"", "\"">> >>

\* the label "Yes" becomes in each answer column
C8_Label(k) ==
    CASE k = "Are you a consultant?" -> <<"C","o","n","s","u","l","t","a","n","t">>
      [] k = "Are you an IEEE member?" -> <<"I","E","E","E">>
      [] k = "Are you an IEEE-CNSV Member?" -> <<"C","N","S","V">>

C8_IsAnswerColumn(k) ==
    k \in {"Are you a consultant?", "Are you an IEEE member?", "Are you an IEEE-CNSV Member?"}

\* C8: preprocess_data returns one row per input row with the same columns; in
\* the three answer columns "Yes" becomes the column's label and "No" a single
\* space, any other value (the empty string, None) is unchanged; every other
\* column is unchanged; the rows given are not mutated.
C8_PreprocessData ==
    processed # NotCalled =>
        /\ arg_data = arg_data0
        /\ Len(processed[1]) = Len(arg_data0)
        /\ \A i \in 1..Len(arg_data0) :
              LET in == arg_data0[i]
                  out == processed[1][i]
              IN  /\ DOMAIN out = DOMAIN in
                  /\ \A k \in DOMAIN in :
                        IF C8_IsAnswerColumn(k) /\ in[k] = <<"Y","e","s">>
                        THEN out[k] = C8_Label(k)
                        ELSE IF C8_IsAnswerColumn(k) /\ in[k] = <<"N","o">>
                        THEN out[k] = <<" ">>
                        ELSE out[k] = in[k]

C8_Witness ==
    /\ processed # NotCalled
    /\ Len(arg_data0) = 2
    /\ arg_data0[1] = [k \in {"Email", "Are you a consultant?", "Are you an IEEE member?"} |->
                          IF k = "Are you an IEEE member?" THEN <<>> ELSE <<"Y","e","s">>]
    /\ processed[1][1]["Are you a consultant?"] = <<"C","o","n","s","u","l","t","a","n","t">>
    /\ processed[1][1]["Are you an IEEE member?"] = <<>>
    /\ processed[1][1]["Email"] = <<"Y","e","s">>
    /\ processed[1][2]["Are you an IEEE-CNSV Member?"] = <<"C","N","S","V">>

(***************************************************************************)
(* Claims about a run.                                                     *)
(***************************************************************************)
\* the run was given exactly one argument, and it is not the help token
OneFileArgument == Len(argv) = 2 /\ argv[2] # <<"-","-","h","e","l","p">>

\* the path ends in ".csv" in any letter case
HasCsvExtension(p) ==
    /\ Len(p) >= 4
    /\ p[Len(p) - 3] = "."
    /\ p[Len(p) - 2] \in {"c", "C"}
    /\ p[Len(p) - 1] \in {"s", "S"}
    /\ p[Len(p)] \in {"v", "V"}

\* the file exists, is named *.csv, can be read, and its first row holds each
\* of the 32 expected headers
PassesValidation(files, p) ==
    /\ p \in DOMAIN files
    /\ HasCsvExtension(p)
    /\ files[p].kind = "csv"
    /\ files[p].records # <<>>
    /\ \A i \in 1..32 : \E j \in 1..Len(files[p].records[1]) :
          files[p].records[1][j] = expected_headers[i]

Terminated == pc \in {"Usage", "Done", "Failed"}

WroteNothing ==
    /\ fs = fs0
    /\ \A i \in 1..Len(fslog) : fslog[i].op \notin {"open_w", "write"}

\* C1: with one non-help argument, a missing file, a path not ending in .csv,
\* an unreadable file or a first row lacking an expected header ends the run in
\* Failed without Processing ever entered and with no file created or modified;
\* Processing is entered only when all the checks pass.
C1_ValidationGuardsProcessing ==
    OneFileArgument =>
        /\ "Processing" \in visited => PassesValidation(fs0, argv[2])
        /\ (~PassesValidation(fs0, argv[2]) /\ Terminated) =>
              /\ pc = "Failed"
              /\ "Processing" \notin visited
        /\ "Processing" \notin visited => WroteNothing

C1_Witness ==
    /\ pc = "Failed"
    /\ argv = <<Prog, P_da>>
    /\ P_da \in DOMAIN fs0
    /\ fs0[P_da].kind = "csv"
    /\ fs0[P_da].records # <<>>
    /\ "Email" \notin Range(fs0[P_da].records[1])
    /\ Len(fs0[P_da].records) = 3
    /\ DOMAIN fs0 # {P_da}
    /\ stdout = <<"err_not_eventbrite">>

\* C7: with no argument, more than one argument or the single argument
\* "--help", main prints the usage text and ends; it makes no file-system call,
\* changes no file, and never enters Validating or Processing.
C7_UsageTouchesNothing ==
    (Len(argv) = 1 \/ Len(argv) > 2 \/ (Len(argv) = 2 /\ argv[2] = <<"-","-","h","e","l","p">>)) =>
        /\ fslog = <<>>
        /\ fs = fs0
        /\ visited \subseteq {"Idle", "Usage"}
        /\ pc = "Usage" => stdout = <<"Usage: python eventbrite_processor.py <input_file.csv>">>
        /\ pc = "Idle" => stdout = <<>>

C7_Witness ==
    /\ pc = "Usage"
    /\ argv = <<Prog, P_a, P_da>>
    /\ P_a \in DOMAIN fs
    /\ PassesValidation(fs, P_a)

ValidationDiagnostics ==
    {"err_not_exist", "err_not_csv", "err_not_eventbrite", "err_reading"}

\* C6 as claimed: every failing run has printed exactly one line.
C6_OneLinePerFailure ==
    pc = "Failed" => Len(stdout) = 1

\* C6 as amended: a run that fails in validation prints exactly one line, the
\* diagnostic of its error (file missing, not .csv, unreadable, headers
\* missing); a run that fails in Processing prints exactly two lines, the
\* read or write diagnostic and then "Processing failed!"; a failed run takes
\* no further step.
C6_DiagnosticsPerFailure ==
    pc = "Failed" =>
        /\ ~ENABLED Next
        /\ IF "Processing" \notin visited
           THEN /\ Len(stdout) = 1
                /\ stdout[1] \in ValidationDiagnostics
                /\ stdout[1] = "err_not_exist" <=> argv[2] \notin DOMAIN fs0
                /\ stdout[1] = "err_not_csv" <=>
                      (argv[2] \in DOMAIN fs0 /\ ~HasCsvExtension(argv[2]))
           ELSE /\ Len(stdout) = 2
                /\ stdout[1] \in {"err_processing", "err_generating"}
                /\ stdout[1] = "err_processing" <=> fs0[argv[2]].body_error
                /\ stdout[2] = "Processing failed!"

C6_Witness ==
    /\ pc = "Failed"
    /\ stdout = <<"err_generating", "Processing failed!">>
    /\ output_file \in DOMAIN fs
    /\ Len(fs[output_file].lines) = 2
    /\ Len(updated_data) = 2

(***************************************************************************)
(* Reading a written record back.  A comma separates two fields when an    *)
(* even number of double quotes precedes it.                               *)
(***************************************************************************)
RECURSIVE Scan(_, _, _, _)
\* the positions, in order, of the separating commas of line[lo..hi], where
\* `quoted` says whether an odd number of double quotes precedes line[lo]
Scan(line, lo, hi, quoted) ==
    IF lo > hi THEN <<>>
    ELSE IF lo = hi THEN (IF line[lo] = "," /\ ~quoted THEN <<lo>> ELSE <<>>)
    ELSE LET mid == (lo + hi) \div 2
             odd == Cardinality({i \in lo..mid : line[i] = "\""}) % 2 = 1
         IN  Scan(line, lo, mid, quoted) \o Scan(line, mid + 1, hi, quoted # odd)

Separators(line) == Scan(line, 1, Len(line), FALSE)

\* the text of the k-th field of the record, as written, given the record's
\* separators
FieldAt(line, seps, k) ==
    SubSeq(line, IF k = 1 THEN 1 ELSE seps[k - 1] + 1, seps[k] - 1)

\* `text` is what the claimed quoting rule writes for the value v
IsFormatted(text, v) ==
    IF v = <<" ">> \/ \E i \in 1..Len(v) : v[i] \in {",", "\"", "\r", "\n"}
    THEN IsQuotedForm(text, v)
    ELSE text = v

\* the record is 15 fields, each followed by a comma, then one line feed
HasFifteenFields(line, seps) ==
    /\ Len(seps) = 15
    /\ Len(line) = seps[15] + 1
    /\ line[Len(line)] = "\n"

\* the value generate_output_file is to write for a column of a row
ColumnValue(row, column) ==
    IF column \in DOMAIN row /\ row[column] # <<>> /\ row[column] # None
    THEN row[column]
    ELSE <<" ">>

\* the file generate_output_file has opened, once it has
Opened == \E i \in 1..Len(fslog) : fslog[i].op = "open_w"

Written == IF Opened THEN fs[output_file].lines ELSE <<>>

\* C3: every record generate_output_file writes, the header and each data
\* record, is 15 formatted values in the order of the output columns, joined
\* by commas and followed by one trailing comma and one line feed, also for
\* rows with missing columns, extra columns and None values.
C3_FifteenValuesPerRecord ==
    \A n \in 1..Len(Written) :
        LET seps == Separators(Written[n])
        IN  /\ HasFifteenFields(Written[n], seps)
            /\ \A k \in 1..15 :
                  IsFormatted(FieldAt(Written[n], seps, k),
                              IF n = 1 THEN Chars(output_columns[k])
                              ELSE ColumnValue(updated_data[n - 1], output_columns[k]))

C3_Witness ==
    /\ pc = "Done"
    /\ Len(Written) = 3
    /\ SubSeq(Written[2], 1, 8) = <<"\"", "a", ",", "b", "\"", ",", "L", ",">>
    /\ updated_data[2]["Email"] = None
    /\ "Order #" \in DOMAIN updated_data[2]
    /\ SubSeq(Written[3], 1, 9) = <<"S", "h", ",", "L", ",", "\"", " ", "\"", ",">>

\* the output file complete: the header record and one record per row
Complete(lines) == Len(lines) = 1 + Len(updated_data)

\* C2: when a run that entered Processing ends in Failed, every file it
\* created or changed holds the complete output (the header and every data
\* row); no partial output file remains.
C2_NoPartialOutput ==
    (pc = "Failed" /\ "Processing" \in visited) =>
        \A q \in DOMAIN fs :
            (q \notin DOMAIN fs0 \/ fs[q] # fs0[q]) => Complete(fs[q].lines)

\* C4: in every data record written, the eight columns "Are you on CNSV BOD?"
\* and "CB 6:1 - CNSV Email" .. "CB 6:7 - Other" (fields 8 to 15) hold the
\* single-space placeholder, whatever the input file contains.
C4_ReservedColumnsBlank ==
    \A n \in 2..Len(Written) :
        LET seps == Separators(Written[n])
        IN  \A k \in 8..15 : FieldAt(Written[n], seps, k) = <<"\"", " ", "\"">>

\* the input's directory, its stem, "_EZ_BADGE_UPLOAD", its extension
NextToInput(p) ==
    LET slash == RFind(p, "/")
        dot == RFind(p, ".")
    IN  SubSeq(p, 1, slash) \o SubSeq(p, slash + 1, dot - 1)
        \o <<"_","E","Z","_","B","A","D","G","E","_","U","P","L","O","A","D">>
        \o SubSeq(p, dot, Len(p))

\* C5: the output file is opened in the input file's directory, under the
\* input's stem followed by "_EZ_BADGE_UPLOAD" and the input's extension.
C5_OutputNextToInput ==
    \A i \in 1..Len(fslog) :
        fslog[i].op = "open_w" => fslog[i].path = NextToInput(argv[2])

\* the rows of the input file that hold at least one field
DataRows == SelectSeq(Tail(fs0[argv[2]].records), LAMBDA r : r # <<>>)

\* the field of a row under the first column named `name`, None when the row
\* is too short to have it
Source(row, name) ==
    LET h == fs0[argv[2]].records[1]
        i == CHOOSE c \in 1..Len(h) : h[c] = name /\ \A d \in 1..(c - 1) : h[d] # name
    IN  IF i <= Len(row) THEN row[i] ELSE None

Normalized(v, label) ==
    IF v = <<"Y","e","s">> THEN label ELSE IF v = <<"N","o">> THEN <<" ">> ELSE v

OrSpace(v) == IF v = <<>> \/ v = None THEN <<" ">> ELSE v

\* the seven values the claim derives from a row, in output order
Derived(row) ==
    << OrSpace(Source(row, "First Name")),
       OrSpace(Source(row, "Last Name")),
       OrSpace(Source(row, "Email")),
       OrSpace(Source(row, "Company")),
       OrSpace(Normalized(Source(row, "Are you an IEEE member?"), <<"I","E","E","E">>)),
       OrSpace(Normalized(Source(row, "Are you an IEEE-CNSV Member?"), <<"C","N","S","V">>)),
       OrSpace(Normalized(Source(row, "Are you a consultant?"),
                          <<"C","o","n","s","u","l","t","a","n","t">>)) >>

\* C10: a finished run has written one data record per input data row, in
\* input order, and the first seven fields of each record are derived from
\* its own row's "First Name", "Last Name", "Email", "Company", "Are you an
\* IEEE member?", "Are you an IEEE-CNSV Member?" and "Are you a consultant?"
\* fields alone (answers normalized, absent or empty values as one space).
C10_RecordsFromOwnRow ==
    pc = "Done" =>
        /\ Len(Written) = 1 + Len(DataRows)
        /\ \A j \in 1..Len(DataRows) :
              LET seps == Separators(Written[j + 1])
              IN  \A k \in 1..7 :
                      IsFormatted(FieldAt(Written[j + 1], seps, k), Derived(DataRows[j])[k])

====
